---- MODULE Spec2Model ----
(***************************************************************************)
(* Model of the lottery program (programs/lottery/src/lib.rs).             *)
(*                                                                         *)
(* One lottery record (a program-derived account) and the lamport          *)
(* balances of the accounts its instructions touch.  Every instruction is  *)
(* one atomic step: the handler is evaluated on a copy of the record and   *)
(* of the balances, and the copy is committed only when the handler        *)
(* returns Ok (a failed instruction leaves every account as it was).       *)
(* Account constraints of the #[derive(Accounts)] structs are evaluated    *)
(* before the handler body.                                                *)
(***************************************************************************)
EXTENDS Integers, Sequences, FiniteSets, TLC

\* ------------------------------------------------------------------ bounds
\* Width, in bits, at which the u64 lamport/prize counters are modelled.
U64_BITS == 20
\* Lamports every wallet holds before the lottery is created.
WalletLamports == 300000
\* Rent-exempt deposit the lottery account is created with.
RentDeposit == 1000
\* Latest time the clock reaches (it starts at 0).
MaxClock == 1
\* Tickets after the first MixedPrefix are all bought by the same buyer.
MixedPrefix == 1
\* Output-currency tokens the swaps of one run can deliver in total.
MaxOutputTokens == 10
\* Tickets sold in the runs checked for progress.
MaxLiveTickets == 2
\* Tickets on the records select_winner's arithmetic is checked on.
MaxArithTickets == 3

\* --------------------------------------------------------- program constants
MAX_PARTICIPANTS == 100
WINNER_PERCENT == 90
CREATOR_PERCENT == 3
DEVELOPER_PERCENT == 3
ADMIN_PERCENT == 4
\* vault_input_token_account.amount must exceed this for buy_back to swap.
BUYBACK_THRESHOLD == 100000000

U64_MAX == 2^U64_BITS - 1

\* --------------------------------------------------------------- identities
None == "None"
Keys == {"alice", "bob", "carol"}
PrimaryBuyer == "alice"
LotteryPda == "lottery"
AdminPda == "adminPda"
Accounts == Keys \cup {LotteryPda, AdminPda}
\* Identifiers a caller may supply; the record modelled is the one of "L1".
LotteryIds == {"L1", "L2"}
\* Accounts a caller may pass as randomness_account_data.
RandomnessAccounts == {"rnd", "junk"}
\* First byte of the value a resolved oracle round may hold.
RandomValues == {0, 7}
\* The randomness account "rnd": no value yet, or <<first byte of the value>>.
NotResolved == << >>

EntryFees == {1, 1000, 12000}
EndTimes == {0}
Creators == {"carol"}
\* Accounts a claimant may pass (and have sign) as the developer.
Developers == {"bob", "carol"}
\* Programs a caller may pass as jupiter_program.
JUPITER_PROGRAM_ID == "JUP6"
Programs == {JUPITER_PROGRAM_ID, "other"}
\* Balances the input-currency vault is topped up to.
VaultInputLevels == {1, BUYBACK_THRESHOLD, BUYBACK_THRESHOLD + 1, 2 * BUYBACK_THRESHOLD}
\* Output-currency amounts a swap may deliver.
SwapOutputs == {0, 5}

VARIABLES
    lottery,    \* the LotteryState account data
    lamports,   \* lamport balance of every account
    clock,      \* Clock::get().unix_timestamp
    oracle,     \* state of the randomness account "rnd"
    last_call,  \* the last instruction processed and what it returned
    tokens      \* token amounts: the treasury vaults (input and output
                \* currency), the buyback caller's output account, burned

vars == <<lottery, lamports, clock, oracle, last_call, tokens>>

\* ------------------------------------------------------------ u64 arithmetic
\* An Option<u64> is the empty sequence (None) or a one-element sequence.
NoValue == << >>
Some(x) == <<x>>
is_none(o) == o = NoValue
unwrap(o) == o[1]

\* u64::checked_mul
checked_mul(a, b) ==
    IF b = 0 \/ a <= U64_MAX \div b THEN Some(a * b) ELSE NoValue

\* u64::checked_div
checked_div(a, b) ==
    IF b = 0 THEN NoValue ELSE Some(a \div b)

\* ------------------------------------------------------------- LotteryState
update_status(l, new_status) == [l EXCEPT !.status = new_status]

\* LotteryState::get_status: the record after the lazy update; the value
\* returned is its status field.
LotteryState_get_status_stored_only(l, now) == l

LotteryState_get_status(l, now) ==
    IF now > l.end_time /\ l.status = "Active"
    THEN update_status(l, "EndedWaitingForWinner")
    ELSE l

InSeq(x, s) == \E i \in 1..Len(s) : s[i] = x

\* LotteryState::set_winner: [err, lottery].
set_winner(l, w) ==
    IF l.winner # None THEN [err |-> "WinnerAlreadySelected", lottery |-> l]
    ELSE IF ~InSeq(w, l.participants) THEN [err |-> "InvalidWinnerIndex", lottery |-> l]
    ELSE [err |-> "Ok", lottery |-> [l EXCEPT !.winner = w]]

\* --------------------------------------------------------------- initialize
initialize(lottery_id, entry_fee, end_time, creator_key, buy_back, admin) ==
    [ lottery_id         |-> lottery_id,
      admin              |-> admin,
      creator            |-> creator_key,
      entry_fee          |-> entry_fee,
      end_time           |-> end_time,
      total_tickets      |-> 0,
      winner             |-> None,
      index              |-> 0,
      randomness_account |-> None,
      participants       |-> << >>,
      status             |-> "Active",
      total_prize        |-> 0,
      buy_back           |-> buy_back ]

\* What a handler returns: an error kind (or "Ok"), a value, and the record
\* and balances as the handler left them.
Result(e, v, l, lam) == [err |-> e, ret |-> v, lottery |-> l, lamports |-> lam]

\* ------------------------------------------------------------------ get_status
get_status(l, lam, lottery_id, now) ==
    IF l.lottery_id # lottery_id THEN Result("InvalidLotteryId", None, l, lam)
    ELSE LET l1 == LotteryState_get_status(l, now)
         IN  Result("Ok", l1.status, l1, lam)

\* The lottery account of GetStatus is not `mut`: nothing the handler wrote
\* to the record is stored.
GetStatus_accounts(l, lam, lottery_id, now) ==
    IF lottery_id # l.lottery_id THEN Result("ConstraintSeeds", None, l, lam)
    ELSE LET r == get_status(l, lam, lottery_id, now)
         IN  Result(r.err, r.ret, l, lam)

\* ------------------------------------------------------------------ buy_ticket
\* system_program::transfer of `amount` lamports.
transfer_nothing(lam, from, to, amount) == [ok |-> TRUE, lamports |-> lam]

transfer(lam, from, to, amount) ==
    IF lam[from] < amount \/ (from # to /\ lam[to] > U64_MAX - amount)
    THEN [ok |-> FALSE, lamports |-> lam]
    ELSE IF from = to THEN [ok |-> TRUE, lamports |-> lam]
    ELSE [ok |-> TRUE,
          lamports |-> [lam EXCEPT ![from] = @ - amount, ![to] = @ + amount]]

\* participants.push(player); total_tickets += 1; index += 1
record_ticket_no_count(l, player) ==
    [l EXCEPT !.participants = Append(@, player), !.index = @ + 1]

record_ticket(l, player) ==
    [l EXCEPT !.participants = Append(@, player),
              !.total_tickets = @ + 1,
              !.index = @ + 1]

buy_ticket_anyone(l0, lam, player, lottery_id, now) ==
    IF l0.lottery_id # lottery_id THEN Result("InvalidLotteryId", None, l0, lam)
    ELSE LET l1 == LotteryState_get_status(l0, now) IN
    IF l1.status # "Active" THEN Result("InvalidLotteryState", None, l1, lam)
    ELSE IF l1.winner # None THEN Result("WinnerAlreadySelected", None, l1, lam)
    ELSE IF ~(l1.total_tickets < MAX_PARTICIPANTS)
         THEN Result("MaxParticipantsReached", None, l1, lam)
    ELSE LET lam1 == transfer(lam, player, LotteryPda, l1.entry_fee) IN
    IF ~lam1.ok THEN Result("InsufficientFunds", None, l1, lam)
    ELSE Result("Ok", None, record_ticket(l1, player), lam1.lamports)

buy_ticket_cap_first(l0, lam, player, lottery_id, now) ==
    IF l0.lottery_id # lottery_id THEN Result("InvalidLotteryId", None, l0, lam)
    ELSE IF ~(l0.total_tickets < MAX_PARTICIPANTS)
         THEN Result("MaxParticipantsReached", None, l0, lam)
    ELSE IF player = l0.creator THEN Result("CreatorCannotParticipate", None, l0, lam)
    ELSE LET l1 == LotteryState_get_status(l0, now) IN
    IF l1.status # "Active" THEN Result("InvalidLotteryState", None, l1, lam)
    ELSE IF l1.winner # None THEN Result("WinnerAlreadySelected", None, l1, lam)
    ELSE LET lam1 == transfer(lam, player, LotteryPda, l1.entry_fee) IN
    IF ~lam1.ok THEN Result("InsufficientFunds", None, l1, lam)
    ELSE Result("Ok", None, record_ticket(l1, player), lam1.lamports)

buy_ticket(l0, lam, player, lottery_id, now) ==
    IF l0.lottery_id # lottery_id THEN Result("InvalidLotteryId", None, l0, lam)
    ELSE IF player = l0.creator THEN Result("CreatorCannotParticipate", None, l0, lam)
    ELSE LET l1 == LotteryState_get_status(l0, now) IN
    IF l1.status # "Active" THEN Result("InvalidLotteryState", None, l1, lam)
    ELSE IF l1.winner # None THEN Result("WinnerAlreadySelected", None, l1, lam)
    ELSE IF ~(l1.total_tickets < MAX_PARTICIPANTS)
         THEN Result("MaxParticipantsReached", None, l1, lam)
    ELSE LET lam1 == transfer(lam, player, LotteryPda, l1.entry_fee) IN
    IF ~lam1.ok THEN Result("InsufficientFunds", None, l1, lam)
    ELSE Result("Ok", None, record_ticket(l1, player), lam1.lamports)

BuyTicket_accounts(l, lam, player, lottery_id, now) ==
    IF lottery_id # l.lottery_id THEN Result("ConstraintSeeds", None, l, lam)
    ELSE buy_ticket(l, lam, player, lottery_id, now)

\* --------------------------------------------------------------- select_winner
\* RandomnessAccountData::parse followed by get_value(&clock), on the account
\* the caller passed: [err, value].
read_randomness_default_value(randomness_key, orc) ==
    IF randomness_key # "rnd" THEN [err |-> "RandomnessUnavailable", value |-> 0]
    ELSE IF orc = NotResolved THEN [err |-> "Ok", value |-> 0]
    ELSE [err |-> "Ok", value |-> orc[1]]

read_randomness(randomness_key, orc) ==
    IF randomness_key # "rnd" THEN [err |-> "RandomnessUnavailable", value |-> 0]
    ELSE IF orc = NotResolved THEN [err |-> "RandomnessNotResolved", value |-> 0]
    ELSE [err |-> "Ok", value |-> orc[1]]

\* entry_fee.checked_mul(total_tickets as u64)
compute_total_prize_wrapping(l) ==
    Some((l.entry_fee * l.total_tickets) % (U64_MAX + 1))

compute_total_prize_by_index(l) == checked_mul(l.entry_fee, l.index + 1)

compute_total_prize(l) == checked_mul(l.entry_fee, l.total_tickets)

\* lottery.update_status(LotteryStatus::WinnerSelected)
finish_selection_completed(l) == update_status(l, "Completed")

finish_selection_skipped(l) == l

finish_selection(l) == update_status(l, "WinnerSelected")

\* lottery.total_tickets > 0 && !lottery.participants.is_empty()
has_participants_nonnegative(l) == l.total_tickets >= 0

has_participants(l) == l.total_tickets > 0 /\ l.participants # << >>

\* (randomness_result[0] as usize) % lottery.total_tickets as usize
winner_index_off_by_one(value, l) == (value + 1) % l.total_tickets

winner_index_of(value, l) == value % l.total_tickets

select_winner(l0, lam, randomness_key, lottery_id, now, orc) ==
    IF l0.lottery_id # lottery_id THEN Result("InvalidLotteryId", None, l0, lam)
    ELSE LET l1 == LotteryState_get_status(l0, now) IN
    IF ~(l1.status = "EndedWaitingForWinner"
         \/ (l1.status = "Active" /\ now > l1.end_time))
    THEN Result("InvalidLotteryState", None, l1, lam)
    ELSE LET prize == compute_total_prize(l1) IN
    IF is_none(prize) THEN Result("Overflow", None, l1, lam)
    ELSE LET l2 == [l1 EXCEPT !.total_prize = unwrap(prize)] IN
    IF l2.winner # None THEN Result("WinnerAlreadySelected", None, l2, lam)
    ELSE IF ~has_participants(l2)
         THEN Result("NoParticipants", None, l2, lam)
    ELSE LET l3 == [l2 EXCEPT !.randomness_account = randomness_key]
             rnd == read_randomness(randomness_key, orc) IN
    IF rnd.err # "Ok" THEN Result(rnd.err, None, l3, lam)
    ELSE LET winner_index == winner_index_of(rnd.value, l3) IN
    IF ~(winner_index < Len(l3.participants))
    THEN Result("InvalidWinnerIndex", None, l3, lam)
    ELSE LET winner_pubkey == l3.participants[winner_index + 1]
             sw == set_winner(l3, winner_pubkey) IN
    IF sw.err # "Ok" THEN Result(sw.err, None, sw.lottery, lam)
    ELSE IF sw.lottery.winner = None THEN Result("NoWinnerSelected", None, sw.lottery, lam)
    ELSE IF sw.lottery.winner # winner_pubkey
         THEN Result("InvalidWinnerIndex", None, sw.lottery, lam)
    ELSE Result("Ok", None, finish_selection(sw.lottery), lam)

SelectWinner_accounts(l, lam, randomness_key, lottery_id, now, orc) ==
    IF lottery_id # l.lottery_id THEN Result("ConstraintSeeds", None, l, lam)
    ELSE IF l.winner # None THEN Result("WinnerAlreadySelected", None, l, lam)
    ELSE select_winner(l, lam, randomness_key, lottery_id, now, orc)

\* ----------------------------------------------------------------- claim_prize
\* total_collected.checked_mul(percent)?.checked_div(100)?
share_div_first(total_collected, percent) ==
    LET d == checked_div(total_collected, 100) IN
    IF is_none(d) THEN NoValue ELSE checked_mul(unwrap(d), percent)

share(total_collected, percent) ==
    LET m == checked_mul(total_collected, percent) IN
    IF is_none(m) THEN NoValue ELSE checked_div(unwrap(m), 100)

\* `**from.try_borrow_mut_lamports()? -= amount; **to...? += amount`
\* on the balances lam: [ok, lamports].
move_lamports_credit_only(lam, from, to, amount) ==
    IF lam[to] > U64_MAX - amount THEN [ok |-> FALSE, lamports |-> lam]
    ELSE [ok |-> TRUE, lamports |-> [lam EXCEPT ![to] = @ + amount]]

move_lamports(lam, from, to, amount) ==
    IF lam[from] < amount THEN [ok |-> FALSE, lamports |-> lam]
    ELSE LET d == [lam EXCEPT ![from] = @ - amount] IN
         IF d[to] > U64_MAX - amount THEN [ok |-> FALSE, lamports |-> lam]
         ELSE [ok |-> TRUE, lamports |-> [d EXCEPT ![to] = @ + amount]]

\* lottery.update_status(LotteryStatus::Completed), all other state preserved
finish_claim_forgotten(l) == l

finish_claim_reset(l) == [update_status(l, "Completed") EXCEPT !.winner = None]

finish_claim_new_round(l) ==
    [update_status(l, "Completed") EXCEPT !.participants = << >>,
                                          !.total_tickets = 0,
                                          !.total_prize = 0]

finish_claim(l) == update_status(l, "Completed")

claim_prize(l, lam, player, creator, developer, lottery_id) ==
    IF l.lottery_id # lottery_id THEN Result("InvalidLotteryId", None, l, lam)
    ELSE IF player # l.winner THEN Result("NotWinner", None, l, lam)
    ELSE LET total_collected == l.total_prize
             prize_amount    == share(total_collected, WINNER_PERCENT)
             creator_share   == share(total_collected, CREATOR_PERCENT)
             developer_share == share(total_collected, DEVELOPER_PERCENT)
             admin_share     == share(total_collected, ADMIN_PERCENT) IN
    IF is_none(prize_amount) \/ is_none(creator_share)
       \/ is_none(developer_share) \/ is_none(admin_share)
    THEN Result("Overflow", None, l, lam)
    ELSE LET t1 == move_lamports(lam, LotteryPda, creator, unwrap(creator_share))
             t2 == move_lamports(t1.lamports, LotteryPda, developer, unwrap(developer_share))
             t3 == move_lamports(t2.lamports, LotteryPda, player, unwrap(prize_amount))
             t4 == move_lamports(t3.lamports, LotteryPda, AdminPda, unwrap(admin_share)) IN
    IF ~(t1.ok /\ t2.ok /\ t3.ok /\ t4.ok)
    THEN Result("ArithmeticPanic", None, l, lam)
    ELSE Result("Ok", None, finish_claim(l), t4.lamports)

ClaimPrize_accounts_any_status(l, lam, player, creator, developer, lottery_id) ==
    IF lottery_id # l.lottery_id THEN Result("ConstraintSeeds", None, l, lam)
    ELSE IF l.winner = None THEN Result("NoWinnerSelected", None, l, lam)
    ELSE IF l.winner # player THEN Result("NotWinner", None, l, lam)
    ELSE IF l.creator # creator THEN Result("ConstraintRaw", None, l, lam)
    ELSE claim_prize(l, lam, player, creator, developer, lottery_id)

ClaimPrize_accounts(l, lam, player, creator, developer, lottery_id) ==
    IF lottery_id # l.lottery_id THEN Result("ConstraintSeeds", None, l, lam)
    ELSE IF l.winner = None THEN Result("NoWinnerSelected", None, l, lam)
    ELSE IF l.winner # player THEN Result("NotWinner", None, l, lam)
    ELSE IF l.status # "WinnerSelected" THEN Result("InvalidLotteryState", None, l, lam)
    ELSE IF l.creator # creator THEN Result("ConstraintRaw", None, l, lam)
    ELSE claim_prize(l, lam, player, creator, developer, lottery_id)

\* -------------------------------------------------------------------- buy_back
\* What buy_back returns: an error kind (or "Ok"), whether the swap was
\* invoked, and the token amounts as the handler left them.
TokenResult(e, v, tok) == [err |-> e, ret |-> v, tokens |-> tok]

\* vault_input_token_account.amount > 100_000_000
exceeds_threshold_or_equal(amount) == amount >= BUYBACK_THRESHOLD

exceeds_threshold(amount) == amount > BUYBACK_THRESHOLD

\* invoke_signed of the swap program with the caller's payload: the swap
\* either fails, or takes `spend` from the input vault and delivers `out`
\* to the output vault: [ok, tokens].
invoke_signed(tok, swap) ==
    IF ~swap.ok \/ swap.spend > tok.vault_input
    THEN [ok |-> FALSE, tokens |-> tok]
    ELSE [ok |-> TRUE,
          tokens |-> [tok EXCEPT !.vault_input = @ - swap.spend,
                                 !.vault_output = @ + swap.out]]

\* utils::transfer_from_pool_vault_to_user: `amount` of the output currency
\* from the vault to the caller's token account: [ok, tokens].
transfer_from_pool_vault_to_user(tok, amount) ==
    IF tok.vault_output < amount THEN [ok |-> FALSE, tokens |-> tok]
    ELSE [ok |-> TRUE,
          tokens |-> [tok EXCEPT !.vault_output = @ - amount,
                                 !.signer_output = @ + amount]]

\* utils::token_burn: `amount` of the output currency burned out of the vault.
token_burn(tok, amount) ==
    IF tok.vault_output < amount THEN [ok |-> FALSE, tokens |-> tok]
    ELSE [ok |-> TRUE,
          tokens |-> [tok EXCEPT !.vault_output = @ - amount,
                                 !.burned = @ + amount]]

\* ctx.accounts.vault_output_token_account.amount, read after the swap: the
\* account struct was deserialized before the handler ran and is not
\* reloaded, so this is the amount the vault held before the swap.
vault_output_amount(before, after) == before.vault_output

buy_back(l, tok, lottery_id, jupiter_program, swap) ==
    IF l.lottery_id # lottery_id THEN TokenResult("InvalidLotteryId", None, tok)
    ELSE IF ~exceeds_threshold(tok.vault_input) THEN TokenResult("Ok", "NoSwap", tok)
    ELSE IF jupiter_program # JUPITER_PROGRAM_ID
         THEN TokenResult("RequireKeysEqViolated", None, tok)
    ELSE LET swapped == invoke_signed(tok, swap) IN
    IF ~swapped.ok THEN TokenResult("SwapFailed", None, tok)
    ELSE LET amount == vault_output_amount(tok, swapped.tokens)
             disposed == IF l.buy_back
                         THEN transfer_from_pool_vault_to_user(swapped.tokens, amount)
                         ELSE token_burn(swapped.tokens, amount) IN
    IF ~disposed.ok THEN TokenResult("InsufficientFunds", None, tok)
    ELSE TokenResult("Ok", "Swapped", disposed.tokens)

BuyBack_accounts(l, tok, lottery_id, jupiter_program, swap) ==
    IF lottery_id # l.lottery_id THEN TokenResult("ConstraintSeeds", None, tok)
    ELSE buy_back(l, tok, lottery_id, jupiter_program, swap)

\* ----------------------------------------------------------------- the steps
\* An instruction that fails leaves every account unchanged.
Commit(op, signer, r) ==
    /\ last_call' = [op |-> op, signer |-> signer, err |-> r.err, ret |-> r.ret]
    /\ IF r.err = "Ok"
       THEN lottery' = r.lottery /\ lamports' = r.lamports
       ELSE UNCHANGED <<lottery, lamports>>

GetStatus ==
    /\ \E lottery_id \in LotteryIds :
          Commit("get_status", None, GetStatus_accounts(lottery, lamports, lottery_id, clock))
    /\ UNCHANGED <<clock, oracle, tokens>>

\* Purchases after the first MixedPrefix succeed for PrimaryBuyer only (a
\* bound of the model); calls that fail are made by anybody at any time.
BuyTicket ==
    /\ \E player \in Keys, lottery_id \in LotteryIds :
          LET r == BuyTicket_accounts(lottery, lamports, player, lottery_id, clock) IN
          /\ r.err = "Ok" =>
                (player = PrimaryBuyer \/ Len(lottery.participants) < MixedPrefix)
          /\ Commit("buy_ticket", player, r)
    /\ UNCHANGED <<clock, oracle, tokens>>

SelectWinner ==
    /\ \E randomness_key \in RandomnessAccounts, lottery_id \in LotteryIds :
          Commit("select_winner", None,
                 SelectWinner_accounts(lottery, lamports, randomness_key,
                                       lottery_id, clock, oracle))
    /\ UNCHANGED <<clock, oracle, tokens>>

ClaimPrize ==
    /\ \E player \in Keys, creator \in Creators \cup {PrimaryBuyer},
          developer \in Developers,
          lottery_id \in LotteryIds :
          Commit("claim_prize", player,
                 ClaimPrize_accounts(lottery, lamports, player, creator,
                                     developer, lottery_id))
    /\ UNCHANGED <<clock, oracle, tokens>>

\* The swaps of one run deliver at most MaxOutputTokens in total.
BuyBack ==
    /\ \E lottery_id \in LotteryIds, jupiter_program \in Programs,
          ok \in BOOLEAN, out \in SwapOutputs,
          spend \in {tokens.vault_input, tokens.vault_input - BUYBACK_THRESHOLD} :
          LET swap == [ok |-> ok, spend |-> spend, out |-> out]
              r == BuyBack_accounts(lottery, tokens, lottery_id, jupiter_program, swap) IN
          /\ spend >= 0
          /\ tokens.vault_output + tokens.signer_output + tokens.burned + out
                <= MaxOutputTokens
          /\ last_call' = [op |-> "buy_back", signer |-> PrimaryBuyer,
                           err |-> r.err, ret |-> r.ret]
          /\ tokens' = IF r.err = "Ok" THEN r.tokens ELSE tokens
    /\ UNCHANGED <<lottery, lamports, clock, oracle>>

\* wrap_sol: the input-currency vault's recorded amount is synchronised with
\* the lamports that were sent to it since (fee income of the treasury).
WrapSol ==
    /\ \E level \in VaultInputLevels :
          /\ level > tokens.vault_input
          /\ tokens' = [tokens EXCEPT !.vault_input = level]
    /\ last_call' = [op |-> "wrap_sol", signer |-> lottery.admin,
                     err |-> "Ok", ret |-> None]
    /\ UNCHANGED <<lottery, lamports, clock, oracle>>

\* The oracle round of the randomness account resolves.  Nothing reads the
\* account before the sale window has closed (select_winner fails its status
\* check first), so the round is resolved from then on only.
OracleResolve ==
    /\ oracle = NotResolved
    /\ clock > lottery.end_time
    /\ \E v \in RandomValues : oracle' = <<v>>
    /\ UNCHANGED <<lottery, lamports, clock, last_call, tokens>>

Tick ==
    /\ clock < MaxClock
    /\ clock' = clock + 1
    /\ UNCHANGED <<lottery, lamports, oracle, last_call, tokens>>

Init ==
    /\ \E entry_fee \in EntryFees, end_time \in EndTimes, creator_key \in Creators,
          buy_back_flag \in BOOLEAN, admin \in {"carol"} :
          lottery = initialize("L1", entry_fee, end_time, creator_key, buy_back_flag, admin)
    /\ lamports = [a \in Accounts |->
                     IF a \in Keys THEN WalletLamports ELSE RentDeposit]
    /\ clock = 0
    /\ oracle = NotResolved
    /\ last_call = [op |-> "initialize", signer |-> "carol", err |-> "Ok", ret |-> None]
    /\ tokens = [vault_input |-> 0, vault_output |-> 0, signer_output |-> 0,
                 burned |-> 0]

Next ==
    \/ GetStatus
    \/ BuyTicket
    \/ SelectWinner
    \/ ClaimPrize
    \/ OracleResolve
    \/ Tick

Spec == Init /\ [][Next]_vars

\* The lottery with a caller who keeps re-issuing the selection call and an
\* oracle whose round resolves: at most MaxLiveTickets tickets are sold.
BuyTicketLive ==
    /\ lottery.total_tickets < MaxLiveTickets
    /\ BuyTicket

SelectWinnerRetry ==
    /\ Commit("select_winner", None,
              SelectWinner_accounts(lottery, lamports, "rnd", lottery.lottery_id,
                                    clock, oracle))
    /\ UNCHANGED <<clock, oracle, tokens>>

NextLive ==
    \/ GetStatus
    \/ BuyTicketLive
    \/ SelectWinner
    \/ SelectWinnerRetry
    \/ ClaimPrize
    \/ OracleResolve
    \/ Tick

SpecLive ==
    /\ Init
    /\ [][NextLive]_vars
    /\ WF_vars(OracleResolve)
    /\ WF_vars(SelectWinnerRetry)

\* select_winner as a function of the record: records of every entry fee up
\* to the top of the u64 range, with up to MaxArithTickets tickets sold.
ArithFees == {1, U64_MAX \div 3, U64_MAX \div 3 + 1, U64_MAX \div 2 + 1, U64_MAX}

InitArith ==
    /\ \E entry_fee \in ArithFees, n \in 0..MaxArithTickets, buy_back_flag \in BOOLEAN :
          lottery = [initialize("L1", entry_fee, 0, "carol", buy_back_flag, "carol")
                        EXCEPT !.total_tickets = n,
                               !.index = n,
                               !.participants = [i \in 1..n |-> PrimaryBuyer]]
    /\ lamports = [a \in Accounts |->
                     IF a \in Keys THEN WalletLamports ELSE RentDeposit]
    /\ clock \in 0..MaxClock
    /\ oracle \in {NotResolved} \cup {<<v>> : v \in RandomValues}
    /\ last_call = [op |-> "initialize", signer |-> "carol", err |-> "Ok", ret |-> None]
    /\ tokens = [vault_input |-> 0, vault_output |-> 0, signer_output |-> 0,
                 burned |-> 0]

NextArith ==
    \/ SelectWinner

SpecArith == InitArith /\ [][NextArith]_vars

\* The treasury buyback on its own: it reads only lottery_id and buy_back of
\* the record, which no instruction changes.
NextBuyBack ==
    \/ BuyBack
    \/ WrapSol

SpecBuyBack == Init /\ [][NextBuyBack]_vars

\* ------------------------------------------------------------------ properties
\* Ticket money the record holds beyond its rent deposit.
Escrow == lamports[LotteryPda] - RentDeposit

\* The step processes an instruction `op` (a step that leaves last_call, the
\* record and the balances alone is a clock or oracle step).
Calls(op) ==
    /\ last_call'.op = op
    /\ <<last_call, lottery, lamports, tokens>>' # <<last_call, lottery, lamports, tokens>>

Succeeds(op) == Calls(op) /\ last_call'.err = "Ok"

\* C1: total_tickets equals the length of participants, and both are at most
\* 100, in every reachable state.
C1_TicketCount ==
    /\ lottery.total_tickets = Len(lottery.participants)
    /\ lottery.total_tickets <= 100
    /\ Len(lottery.participants) <= 100

\* A 101st purchase was attempted on a sold-out lottery.
C1_Witness ==
    /\ lottery.total_tickets = 100
    /\ last_call.op = "buy_ticket"
    /\ last_call.err = "MaxParticipantsReached"

\* C2: the creator never appears in participants, and a buy_ticket signed by
\* the creator fails and appends nothing.
C2_CreatorExcluded ==
    /\ ~InSeq(lottery.creator, lottery.participants)
    /\ (last_call.op = "buy_ticket" /\ last_call.signer = lottery.creator)
          => last_call.err # "Ok"

\* The creator tried to buy a ticket of a lottery that already has buyers.
C2_Witness ==
    /\ last_call.op = "buy_ticket"
    /\ last_call.signer = lottery.creator
    /\ last_call.err = "CreatorCannotParticipate"
    /\ Len(lottery.participants) >= 1

\* C3: once set, winner never changes and is an element of participants, and
\* every select_winner call made once a winner is set fails.
C3_WinnerImmutable ==
    [][ /\ lottery.winner # None => lottery'.winner = lottery.winner
        /\ lottery'.winner # None => InSeq(lottery'.winner, lottery'.participants)
        /\ (lottery.winner # None /\ Calls("select_winner"))
              => last_call'.err # "Ok" ]_vars

\* A second select_winner was rejected after the prize had been claimed.
C3_Witness ==
    /\ lottery.winner # None
    /\ lottery.status = "Completed"
    /\ last_call.op = "select_winner"
    /\ last_call.err = "WinnerAlreadySelected"

\* C4: total_prize changes only in the successful select_winner step, which
\* sets it to entry_fee * total_tickets; before that it is 0 and afterwards
\* (claim_prize included) it keeps that value.
C4_PrizeSetOnce ==
    [][ /\ lottery'.total_prize # lottery.total_prize
              => /\ Succeeds("select_winner")
                 /\ lottery.winner = None
                 /\ lottery'.winner # None
                 /\ lottery'.total_prize = lottery.entry_fee * lottery.total_tickets
        /\ Succeeds("select_winner")
              => lottery'.total_prize = lottery.entry_fee * lottery.total_tickets
        /\ lottery.winner # None => lottery'.total_prize = lottery.total_prize
        /\ lottery.winner = None => lottery.total_prize = 0 ]_vars

\* The prize of a three-ticket lottery is still in place after the claim.
C4_Witness ==
    /\ lottery.status = "Completed"
    /\ lottery.total_tickets = 3
    /\ lottery.total_prize = 3 * lottery.entry_fee
    /\ last_call.op = "claim_prize"
    /\ last_call.err = "Ok"

\* What claim_prize pays account a out of total_prize tp when the developer
\* account passed is dev: the sum of the legs addressed to a.
Leg(tp, percent) == (tp * percent) \div 100

Credit(a, tp, dev) ==
      (IF a = lottery.winner  THEN Leg(tp, 90) ELSE 0)
    + (IF a = lottery.creator THEN Leg(tp, 3) ELSE 0)
    + (IF a = dev             THEN Leg(tp, 3) ELSE 0)
    + (IF a = AdminPda        THEN Leg(tp, 4) ELSE 0)

LegsTotal(tp) == Leg(tp, 90) + Leg(tp, 3) + Leg(tp, 3) + Leg(tp, 4)

\* C5: after every successful claim_prize the four legs sum to total_prize
\* and the escrow is exactly zero.
C5_EscrowDrained ==
    lottery.status = "Completed"
        => /\ LegsTotal(lottery.total_prize) = lottery.total_prize
           /\ Escrow = 0

\* C6: until claim_prize has succeeded the escrow equals
\* entry_fee * total_tickets.
C6_EscrowMatchesTickets ==
    lottery.status # "Completed"
        => Escrow = lottery.entry_fee * lottery.total_tickets

\* A winner has been selected on a lottery that sold several tickets.
C6_Witness ==
    /\ lottery.status = "WinnerSelected"
    /\ lottery.total_tickets >= 2
    /\ Escrow = lottery.entry_fee * lottery.total_tickets
    /\ Escrow > 0

\* C7: status only moves Active -> EndedWaitingForWinner -> WinnerSelected ->
\* Completed, or Active -> WinnerSelected once end_time has passed.
C7_StatusForward ==
    [][ \/ lottery'.status = lottery.status
        \/ lottery.status = "Active" /\ lottery'.status = "EndedWaitingForWinner"
        \/ /\ lottery.status = "Active" /\ lottery'.status = "WinnerSelected"
           /\ clock > lottery.end_time
        \/ /\ lottery.status = "EndedWaitingForWinner"
           /\ lottery'.status = "WinnerSelected"
        \/ lottery.status = "WinnerSelected" /\ lottery'.status = "Completed" ]_vars

\* The record went all the way to Completed.
C7_Witness ==
    /\ lottery.status = "Completed"
    /\ lottery.winner # None
    /\ clock > lottery.end_time

\* C8: claim_prize succeeds only in status WinnerSelected for the winner;
\* a failing claim_prize changes no balance and no field.
C8_ClaimGuard ==
    [][ /\ Succeeds("claim_prize")
              => /\ lottery.status = "WinnerSelected"
                 /\ last_call'.signer = lottery.winner
        /\ (Calls("claim_prize") /\ last_call'.err # "Ok")
              => lamports' = lamports /\ lottery' = lottery ]_vars

\* Somebody other than the winner tried to claim a selected prize.
C8_Witness ==
    /\ lottery.status = "WinnerSelected"
    /\ last_call.op = "claim_prize"
    /\ last_call.signer # lottery.winner
    /\ last_call.err = "NotWinner"
    /\ Escrow = lottery.total_prize
    /\ Escrow > 0

\* C9: once claim_prize has succeeded every further claim_prize fails (the
\* winner's, passing the right identifier and creator account, with
\* InvalidLotteryState) and changes no balance and no field.
C9_ClaimOnce ==
    [][ ( /\ \/ lottery.status = "Completed"
             \/ last_call.op = "claim_prize" /\ last_call.err = "Ok"
          /\ Calls("claim_prize") )
        => /\ last_call'.err # "Ok"
           /\ (last_call'.signer = lottery.winner
                 /\ last_call'.err \notin {"ConstraintSeeds", "ConstraintRaw"})
                => last_call'.err = "InvalidLotteryState"
           /\ lamports' = lamports
           /\ lottery' = lottery ]_vars

\* The winner claimed a second time and was turned away.
C9_Witness ==
    /\ lottery.status = "Completed"
    /\ last_call.op = "claim_prize"
    /\ last_call.signer = lottery.winner
    /\ last_call.err = "InvalidLotteryState"
    /\ lottery.total_prize > 0

C11_NoSaleAfterClose ==
    [][ /\ Succeeds("buy_ticket") => ~(clock > lottery.end_time)
        /\ (lottery.status # "Active" \/ lottery.winner # None)
              => /\ lottery'.participants = lottery.participants
                 /\ lottery'.total_tickets = lottery.total_tickets
                 /\ lamports'[LotteryPda] <= lamports[LotteryPda] ]_vars

\* A purchase was refused after the window closed, winner already selected.
C11_Witness ==
    /\ clock > lottery.end_time
    /\ lottery.status = "WinnerSelected"
    /\ last_call.op = "buy_ticket"
    /\ last_call.signer # lottery.creator
    /\ last_call.err = "InvalidLotteryState"
    /\ lottery.total_tickets < MAX_PARTICIPANTS

\* C12: a successful select_winner sets winner to
\* participants[randomness_value mod total_tickets], that index being below
\* the length of participants, and sets status to WinnerSelected.
C12_WinnerByModulo ==
    [][ Succeeds("select_winner")
        => /\ oracle # NotResolved
           /\ lottery.total_tickets > 0
           /\ LET i == oracle[1] % lottery.total_tickets IN
                /\ i < Len(lottery.participants)
                /\ lottery'.winner = lottery.participants[i + 1]
           /\ lottery'.status = "WinnerSelected" ]_vars

\* 3 tickets and oracle value 7 selected participants[1].
C12_Witness ==
    /\ lottery.status = "WinnerSelected"
    /\ lottery.participants = <<"bob", "alice", "alice">>
    /\ oracle = <<7>>
    /\ lottery.winner = "alice"
    /\ last_call.op = "select_winner"
    /\ last_call.err = "Ok"

\* C17: after a buy_back whose swap succeeded the output vault is empty: all
\* it held went to the caller when buy_back is true, was burned when false.
C17_OutputDisposed ==
    [][ (Calls("buy_back") /\ last_call'.err = "Ok" /\ last_call'.ret = "Swapped")
        => /\ tokens'.vault_output = 0
           /\ lottery.buy_back => tokens'.burned = tokens.burned
           /\ ~lottery.buy_back => tokens'.signer_output = tokens.signer_output ]_vars

\* C18: with the input vault at or below 100,000,000 a buy_back call with the
\* matching identifier succeeds without invoking the swap and changes no
\* token amount and no field of the record; the swap is invoked only above
\* 100,000,000.
C18_ThresholdNoOp ==
    [][ Calls("buy_back")
        => /\ (tokens.vault_input <= 100000000 /\ last_call'.err # "ConstraintSeeds")
                => /\ last_call'.err = "Ok"
                   /\ last_call'.ret = "NoSwap"
                   /\ tokens' = tokens
                   /\ lottery' = lottery
           /\ last_call'.ret = "Swapped" => tokens.vault_input > 100000000
           /\ tokens' # tokens => tokens.vault_input > 100000000 ]_vars

\* A call at exactly the threshold was a no-op although output is waiting.
C18_Witness ==
    /\ tokens.vault_input = 100000000
    /\ tokens.vault_output > 0
    /\ last_call.op = "buy_back"
    /\ last_call.err = "Ok"
    /\ last_call.ret = "NoSwap"

\* C13: a select_winner call on an admissible lottery whose oracle round has
\* not resolved fails with RandomnessNotResolved and leaves the record as it
\* was (winner unset, status not past EndedWaitingForWinner); when the round
\* resolves and the caller keeps retrying, a lottery past end_time with at
\* least one ticket reaches WinnerSelected.
C13_Admissible ==
    /\ clock > lottery.end_time
    /\ lottery.total_tickets >= 1
    /\ lottery.winner = None

C14_NoParticipants ==
    /\ [](lottery.total_tickets = 0 /\ clock > lottery.end_time
            => \A randomness_key \in RandomnessAccounts :
                 SelectWinner_accounts(lottery, lamports, randomness_key,
                                       lottery.lottery_id, clock, oracle).err
                   = "NoParticipants")
    /\ [][ (Calls("select_winner") /\ last_call'.err = "NoParticipants")
           => /\ lottery.total_tickets = 0
              /\ lottery' = lottery
              /\ lamports' = lamports ]_vars

C14_Witness ==
    /\ last_call.op = "select_winner"
    /\ last_call.err = "NoParticipants"
    /\ clock > lottery.end_time
    /\ lottery.participants = << >>
    /\ lottery.total_prize = 0
    /\ lottery.randomness_account = None
    /\ lottery.winner = None
    /\ lottery.status = "Active"
    /\ oracle # NotResolved

\* C15: buy_ticket checks identifier match, buyer is not the creator, status
\* is Active after the lazy update, winner unset, total_tickets < 100, in
\* that order, and fails with the error of the first violated guard; a
\* non-creator buy on an Active lottery holding 100 tickets fails with
\* MaxParticipantsReached and leaves participants unchanged.
C15_FirstViolated(player, lottery_id) ==
    IF lottery_id # lottery.lottery_id THEN {"InvalidLotteryId", "ConstraintSeeds"}
    ELSE IF player = lottery.creator THEN {"CreatorCannotParticipate"}
    ELSE IF lottery.status # "Active" \/ clock > lottery.end_time
         THEN {"InvalidLotteryState"}
    ELSE IF lottery.winner # None THEN {"WinnerAlreadySelected"}
    ELSE IF lottery.total_tickets >= 100 THEN {"MaxParticipantsReached"}
    ELSE {"Ok", "InsufficientFunds"}

C15_GuardOrder ==
    /\ [](\A player \in Keys, lottery_id \in LotteryIds :
            BuyTicket_accounts(lottery, lamports, player, lottery_id, clock).err
              \in C15_FirstViolated(player, lottery_id))
    /\ [][ (Calls("buy_ticket") /\ last_call'.err = "MaxParticipantsReached")
           => /\ lottery.total_tickets = 100
              /\ last_call'.signer # lottery.creator
              /\ lottery'.participants = lottery.participants
              /\ Len(lottery'.participants) = 100 ]_vars

C15_Witness ==
    /\ last_call.op = "buy_ticket"
    /\ last_call.err = "MaxParticipantsReached"
    /\ last_call.signer # lottery.creator
    /\ lottery.status = "Active"
    /\ clock <= lottery.end_time
    /\ lottery.total_tickets = 100
    /\ Len(lottery.participants) = 100

\* C16: get_status changes nothing in the record except the transition
\* Active -> EndedWaitingForWinner, which it takes exactly when the stored
\* status is Active and the current time is past end_time; once it returned
\* a status other than Active, a repeated call returns the same status.
C16_LazyTransitionStored ==
    [][ Succeeds("get_status")
        => /\ lottery' = IF lottery.status = "Active" /\ clock > lottery.end_time
                         THEN [lottery EXCEPT !.status = "EndedWaitingForWinner"]
                         ELSE lottery
           /\ last_call'.ret # "Active"
                => GetStatus_accounts(lottery', lamports', lottery'.lottery_id,
                                      clock').ret = last_call'.ret ]_vars

\* C19: select_winner fails with Overflow, changing nothing in the record,
\* exactly when entry_fee * total_tickets exceeds the u64 range (among the
\* calls that pass the identifier, winner and status guards before the
\* multiplication); total_prize is never a wrapped or saturated product.
C19_CheckedPrize ==
    /\ [](lottery.total_prize \in {0, lottery.entry_fee * lottery.total_tickets})
    /\ [][ Calls("select_winner")
           => /\ ( /\ last_call'.err # "ConstraintSeeds"
                   /\ lottery.winner = None
                   /\ lottery.status \in {"Active", "EndedWaitingForWinner"}
                   /\ clock > lottery.end_time )
                 => (last_call'.err = "Overflow"
                       <=> lottery.entry_fee * lottery.total_tickets > U64_MAX)
              /\ last_call'.err = "Overflow"
                 => /\ lottery.entry_fee * lottery.total_tickets > U64_MAX
                    /\ lottery' = lottery
              /\ last_call'.err = "Ok"
                 => /\ lottery'.total_prize = lottery.entry_fee * lottery.total_tickets
                    /\ lottery'.total_prize <= U64_MAX ]_vars

C19_Witness ==
    /\ last_call.op = "select_winner"
    /\ last_call.err = "Overflow"
    /\ lottery.entry_fee * lottery.total_tickets > U64_MAX
    /\ lottery.total_prize = 0
    /\ lottery.winner = None
    /\ lottery.status = "Active"

\* C20: a successful claim_prize changes only status (to Completed) and the
\* balances of the lottery account and the four recipients: lottery_id,
\* admin, creator, entry_fee, end_time, total_tickets, participants, winner,
\* randomness_account, total_prize and buy_back are as before the call.
C20_ClaimFrame ==
    [][ Succeeds("claim_prize")
        => /\ lottery'.status = "Completed"
           /\ lottery'.lottery_id = lottery.lottery_id
           /\ lottery'.admin = lottery.admin
           /\ lottery'.creator = lottery.creator
           /\ lottery'.entry_fee = lottery.entry_fee
           /\ lottery'.end_time = lottery.end_time
           /\ lottery'.total_tickets = lottery.total_tickets
           /\ lottery'.participants = lottery.participants
           /\ lottery'.winner = lottery.winner
           /\ lottery'.randomness_account = lottery.randomness_account
           /\ lottery'.total_prize = lottery.total_prize
           /\ lottery'.buy_back = lottery.buy_back
           /\ lottery' = [lottery EXCEPT !.status = "Completed"]
           /\ \E dev \in Developers :
                \A a \in Accounts \ {LotteryPda, AdminPda, lottery.winner,
                                     lottery.creator, dev} :
                    lamports'[a] = lamports[a]
           /\ tokens' = tokens ]_vars

\* A two-ticket lottery was paid out and still shows who played and who won.
C20_Witness ==
    /\ last_call.op = "claim_prize"
    /\ last_call.err = "Ok"
    /\ lottery.status = "Completed"
    /\ lottery.winner = last_call.signer
    /\ lottery.total_tickets = 2
    /\ Len(lottery.participants) = 2
    /\ lottery.total_prize = 2 * lottery.entry_fee
    /\ lottery.randomness_account = "rnd"

\* C21: currency is conserved: over buy_ticket and claim_prize calls,
\* successful or failing, the sum of the balances of the buyers, the lottery
\* account, the creator, the developer and the administrator record is
\* constant; buy_ticket moves exactly entry_fee from the buyer to the lottery
\* account; claim_prize credits the recipients exactly what it debits from
\* the lottery account, and never more than the escrow holds.
C21_Total(lam) ==
    lam["alice"] + lam["bob"] + lam["carol"] + lam[LotteryPda] + lam[AdminPda]

C21_Conservation ==
    /\ [](C21_Total(lamports) = 3 * WalletLamports + 2 * RentDeposit)
    /\ [][ /\ Succeeds("buy_ticket")
              => LET buyer == last_call'.signer IN
                 /\ buyer # LotteryPda
                 /\ lamports' = [lamports EXCEPT
                                   ![buyer] = @ - lottery.entry_fee,
                                   ![LotteryPda] = @ + lottery.entry_fee]
           /\ Succeeds("claim_prize")
              => /\ lamports[LotteryPda] - lamports'[LotteryPda]
                      = (lamports'["alice"] - lamports["alice"])
                        + (lamports'["bob"] - lamports["bob"])
                        + (lamports'["carol"] - lamports["carol"])
                        + (lamports'[AdminPda] - lamports[AdminPda])
                 /\ \A a \in Accounts \ {LotteryPda} : lamports'[a] >= lamports[a]
                 /\ lamports[LotteryPda] - lamports'[LotteryPda] <= Escrow
           /\ (last_call'.op \in {"buy_ticket", "claim_prize"} /\ last_call'.err # "Ok")
              => lamports' = lamports ]_vars

\* A three-ticket lottery has been paid out.
C21_Witness ==
    /\ last_call.op = "claim_prize"
    /\ last_call.err = "Ok"
    /\ lottery.status = "Completed"
    /\ lottery.total_tickets = 3
    /\ lottery.total_prize = 3000
    /\ lamports[LotteryPda] < RentDeposit + 3000
    /\ C21_Total(lamports) = 3 * WalletLamports + 2 * RentDeposit

\* C22: in every stored state the selection fields agree: winner is set iff
\* status is WinnerSelected or Completed iff randomness_account is set; and
\* when winner is set, total_tickets >= 1, winner is not the creator and
\* total_prize = entry_fee * total_tickets.
C22_SelectionFieldsAgree ==
    /\ (lottery.winner # None) <=> (lottery.status \in {"WinnerSelected", "Completed"})
    /\ (lottery.winner # None) <=> (lottery.randomness_account # None)
    /\ lottery.winner # None
         => /\ lottery.total_tickets >= 1
            /\ lottery.winner # lottery.creator
            /\ lottery.total_prize = lottery.entry_fee * lottery.total_tickets

\* A winner has been drawn among several tickets and not yet paid.
C22_Witness ==
    /\ lottery.winner \in Keys
    /\ lottery.status = "WinnerSelected"
    /\ lottery.randomness_account = "rnd"
    /\ lottery.total_tickets >= 2
    /\ lottery.total_prize = lottery.entry_fee * lottery.total_tickets
    /\ last_call.op = "select_winner"
    /\ last_call.err = "Ok"
    /\ oracle = <<7>>

\* C23: every lottery that reaches WinnerSelected can be settled: whatever
\* entry_fee and ticket count select_winner succeeded for, a claim_prize call
\* by the winner with the right accounts succeeds (no Overflow in any of the
\* total_prize * percentage computations).
C23_WinnerCanSettle ==
    lottery.status = "WinnerSelected"
        => \A developer \in Developers :
             ClaimPrize_accounts(lottery, lamports, lottery.winner, lottery.creator,
                                 developer, lottery.lottery_id).err = "Ok"
====
